---- MODULE Spec2Model ----
(***************************************************************************)
(* Model of SelfCC-main/cifar10/clustering_module_cifar10.py:              *)
(*   - ResNet.__init__ / _make_layer / _forward_impl (backbone shapes),    *)
(*   - get_resnet_cifar (model selector),                                  *)
(*   - clustering_model.__init__ / load_init_weight / forward (fuzzy       *)
(*     membership head), with IEEE inf/nan made explicit and finite values *)
(*     kept as exact fractions.                                            *)
(* Two specifications share the variables: SpecResNet drives the backbone  *)
(* construction and its forward pass, Spec drives the clustering model.    *)
(***************************************************************************)
EXTENDS Integers, Sequences, FiniteSets, TLC

(***************************************************************************)
(* Bounds of the model.                                                    *)
(***************************************************************************)
\* largest number of residual blocks per stage that is enumerated
MaxBlocks == 2
\* largest batch size N that is enumerated
MaxBatch == 2
\* embedding length of the head in the model; it stands for the 512 of line 163
EmbDim == 2
\* number of forward calls after which the model stops taking further ones
MaxForward == 2

(***************************************************************************)
(* Backbone state (one ResNet object under construction / in use).         *)
(***************************************************************************)
VARIABLES
    pc,            \* "none", then inside ResNet.__init__: "stem", "layers"; "built"; "raised"
    block,         \* "BasicBlock" | "Bottleneck"
    layers,        \* the four per-stage block counts
    rsd,           \* replace_stride_with_dilation: [none |-> TRUE] or [none |-> FALSE, flags |-> ...]
    in_channel,    \* constructor argument in_channel
    inplanes,      \* self.inplanes
    dilation,      \* self.dilation
    conv1,         \* <<>> until line 38 has run, then <<the stem convolution>>
    stages,        \* <<layer1, ..., layerk>> built so far; a layer is a sequence of blocks
    rep_dim,       \* self.rep_dim, 0 until line 54 has run
    feat,          \* last ResNet.forward: [kind |-> "none" | "shape" | "RuntimeError",
                   \*                       shape |-> <<N, C>>, x |-> the input shape]
    raised         \* <<>> or <<the exception raised by the constructor / selector>>

resnetVars == <<pc, block, layers, rsd, in_channel, inplanes, dilation, conv1,
                stages, rep_dim, feat, raised>>

(***************************************************************************)
(* Clustering model state.                                                 *)
(***************************************************************************)
VARIABLES
    mpc,                  \* "none" before clustering_model.__init__, then "ready"
    fuzzifier,            \* self.fuzzifier, a rational <<numerator, denominator>>
    class_number,         \* self.class_number
    clustering_layer,     \* the prototype Parameter: EmbDim rows of class_number entries
    feat_weights,         \* the feat_extractor's parameters: "init", "checkpoint" or "partial"
    num_batches_tracked,  \* running statistics of the default nn.BatchNorm2d layers (line 22)
    latent,               \* the embeddings computed by the last forward (line 173)
    u_matrix,             \* the outcome of the last forward
    load_error            \* TRUE when the last load_init_weight raised

headVars == <<mpc, fuzzifier, class_number, clustering_layer, feat_weights,
              num_batches_tracked, latent, u_matrix, load_error>>

Blocks == {"BasicBlock", "Bottleneck"}

\* torchvision's BasicBlock.expansion = 1, Bottleneck.expansion = 4
Expansion(b) == IF b = "Bottleneck" THEN 4 ELSE 1

\* the planes / stride arguments of the four _make_layer calls (lines 43-52)
StagePlanes == <<64, 128, 256, 512>>
StageStride == <<1, 2, 2, 2>>

\* dilate argument of the k-th _make_layer call, flags being the 3-element list
StageDilate(flags, k) == IF k = 1 THEN FALSE ELSE flags[k - 1]

\* line 27-30: None is replaced by [False, False, False]
DilationFlags(r) == IF r.none THEN <<FALSE, FALSE, FALSE>> ELSE r.flags

\* line 31: the list must hold exactly 3 flags
DilationArgOk_atleast3(flags) == Len(flags) >= 3

DilationArgOk(flags) == Len(flags) = 3

(***************************************************************************)
(* ResNet._make_layer (lines 72-111).  self is a record with the fields    *)
(* block, inplanes, dilation, groups, base_width; the result carries the   *)
(* updated self and the nn.Sequential of blocks.  A block is recorded by   *)
(* the arguments it is constructed with.                                   *)
(***************************************************************************)
make_layer_nodilate(self, planes, blocks, stride, dilate) ==
    LET exp == Expansion(self.block)
        previous_dilation == self.dilation
        down == stride # 1 \/ self.inplanes # planes * exp
        first == [inplanes |-> self.inplanes, planes |-> planes, stride |-> stride,
                  downsample |-> down, groups |-> self.groups,
                  base_width |-> self.base_width, dilation |-> previous_dilation]
        rest == [k \in 1..(blocks - 1) |->
                    [inplanes |-> planes * exp, planes |-> planes, stride |-> 1,
                     downsample |-> FALSE, groups |-> self.groups,
                     base_width |-> self.base_width, dilation |-> self.dilation]]
    IN [self |-> [self EXCEPT !.inplanes = planes * exp],
        layer |-> <<first>> \o rest]

make_layer_keepinplanes(self, planes, blocks, stride, dilate) ==
    LET exp == Expansion(self.block)
        previous_dilation == self.dilation
        dil == IF dilate THEN self.dilation * stride ELSE self.dilation
        st == IF dilate THEN 1 ELSE stride
        down == st # 1 \/ self.inplanes # planes * exp
        first == [inplanes |-> self.inplanes, planes |-> planes, stride |-> st,
                  downsample |-> down, groups |-> self.groups,
                  base_width |-> self.base_width, dilation |-> previous_dilation]
        rest == [k \in 1..(blocks - 1) |->
                    [inplanes |-> self.inplanes, planes |-> planes, stride |-> 1,
                     downsample |-> FALSE, groups |-> self.groups,
                     base_width |-> self.base_width, dilation |-> dil]]
    IN [self |-> [self EXCEPT !.dilation = dil],
        layer |-> <<first>> \o rest]

make_layer(self, planes, blocks, stride, dilate) ==
    LET exp == Expansion(self.block)
        previous_dilation == self.dilation
        dil == IF dilate THEN self.dilation * stride ELSE self.dilation
        st == IF dilate THEN 1 ELSE stride
        down == st # 1 \/ self.inplanes # planes * exp
        first == [inplanes |-> self.inplanes, planes |-> planes, stride |-> st,
                  downsample |-> down, groups |-> self.groups,
                  base_width |-> self.base_width, dilation |-> previous_dilation]
        rest == [k \in 1..(blocks - 1) |->
                    [inplanes |-> planes * exp, planes |-> planes, stride |-> 1,
                     downsample |-> FALSE, groups |-> self.groups,
                     base_width |-> self.base_width, dilation |-> dil]]
    IN [self |-> [self EXCEPT !.inplanes = planes * exp, !.dilation = dil],
        layer |-> <<first>> \o rest]

\* the stem convolution of lines 38-40
StemConv(inch, planes) ==
    [in |-> inch, out |-> planes, kernel_size |-> 3, stride |-> 1, padding |-> 1]

(***************************************************************************)
(* ResNet._forward_impl (lines 113-126) on shapes.                         *)
(***************************************************************************)
\* output extent of a convolution with padding = dilation * (kernel - 1) / 2
ConvOut(h, s) == ((h - 1) \div s) + 1

RECURSIVE Flatten(_)
Flatten(ss) == IF ss = <<>> THEN <<>> ELSE Head(ss) \o Flatten(Tail(ss))

ShapeError == [ok |-> FALSE, c |-> 0, h |-> 0, w |-> 0]

\* one residual block on a feature-map shape [ok, c, h, w]
BlockForward(b, exp, x) ==
    IF ~x.ok THEN x
    ELSE IF x.c # b.inplanes THEN ShapeError
    ELSE IF ~b.downsample /\ (b.stride # 1 \/ b.inplanes # b.planes * exp)
         THEN ShapeError          \* the shortcut cannot be added to the residual
    ELSE [ok |-> TRUE, c |-> b.planes * exp,
          h |-> ConvOut(x.h, b.stride), w |-> ConvOut(x.w, b.stride)]

RECURSIVE BlocksForward(_, _, _)
BlocksForward(bs, exp, x) ==
    IF bs = <<>> THEN x
    ELSE BlocksForward(Tail(bs), exp, BlockForward(Head(bs), exp, x))

NoFeat == [kind |-> "none", shape |-> <<>>, x |-> <<>>]

\* x is an image batch shape <<N, C, H, W>>; the result is the feature batch shape
forward_impl(stem, sts, exp, x) ==
    IF x[2] # stem.in THEN [kind |-> "RuntimeError", shape |-> <<>>, x |-> x]
    ELSE LET y == BlocksForward(Flatten(sts), exp,
                                [ok |-> TRUE, c |-> stem.out,
                                 h |-> ConvOut(x[3], stem.stride),
                                 w |-> ConvOut(x[4], stem.stride)])
         IN IF ~y.ok THEN [kind |-> "RuntimeError", shape |-> <<>>, x |-> x]
            ELSE [kind |-> "shape", shape |-> <<x[1], y.c>>, x |-> x]  \* avgpool, flatten

(***************************************************************************)
(* Inputs of the backbone specification.                                   *)
(***************************************************************************)
LayerCounts == {<<a, b, c, d>> : a \in 1..MaxBlocks, b \in 1..MaxBlocks,
                                 c \in 1..MaxBlocks, d \in 1..MaxBlocks}

BoolSeqs(n) == [1..n -> BOOLEAN]

\* None, every 3-flag list, and lists of the wrong lengths 2 and 4
DilationArgs ==
    {[none |-> TRUE, flags |-> <<>>]}
    \cup {[none |-> FALSE, flags |-> f] : f \in BoolSeqs(3)}
    \cup {[none |-> FALSE, flags |-> f] : f \in {<<FALSE, FALSE>>, <<TRUE, FALSE>>}}
    \cup {[none |-> FALSE, flags |-> f] : f \in {<<FALSE, FALSE, FALSE, FALSE>>,
                                                  <<FALSE, TRUE, FALSE, TRUE>>}}

InChannels == {1, 3}
ImageSizes == {<<32, 32>>, <<8, 16>>}
ImageShapes == {<<n, c, hw[1], hw[2]>> : n \in 1..MaxBatch, c \in InChannels,
                                         hw \in ImageSizes}

SelfRec == [block |-> block, inplanes |-> inplanes, dilation |-> dilation,
            groups |-> 1, base_width |-> 64]

InitResNet ==
    /\ pc = "none"
    /\ block = "BasicBlock"
    /\ layers = <<1, 1, 1, 1>>
    /\ rsd = [none |-> TRUE, flags |-> <<>>]
    /\ in_channel = 3
    /\ inplanes = 0
    /\ dilation = 0
    /\ conv1 = <<>>
    /\ stages = <<>>
    /\ rep_dim = 0
    /\ feat = NoFeat
    /\ raised = <<>>

\* ResNet.__init__, lines 20-37: the arguments are bound, inplanes and dilation
\* set, and the length of replace_stride_with_dilation checked
ResNetNew(b, ls, ic, r) ==
    /\ pc = "none"
    /\ block' = b
    /\ layers' = ls
    /\ in_channel' = ic
    /\ rsd' = r
    /\ inplanes' = 64
    /\ dilation' = 1
    /\ IF ~DilationArgOk(DilationFlags(r))
       THEN /\ pc' = "raised"
            /\ raised' = <<[type |-> "ValueError",
                            arg |-> "replace_stride_with_dilation should be None or a 3-element tuple"]>>
       ELSE /\ pc' = "stem"
            /\ raised' = raised
    /\ UNCHANGED <<conv1, stages, rep_dim, feat>>
    /\ UNCHANGED headVars

\* lines 38-42: the stem
ResNetStem ==
    /\ pc = "stem"
    /\ conv1' = <<StemConv(in_channel, inplanes)>>
    /\ pc' = "layers"
    /\ UNCHANGED <<block, layers, rsd, in_channel, inplanes, dilation, stages,
                   rep_dim, feat, raised>>
    /\ UNCHANGED headVars

\* lines 43-52: the next of the four _make_layer calls
ResNetMakeLayer ==
    /\ pc = "layers"
    /\ Len(stages) < 4
    /\ LET k == Len(stages) + 1
           r == make_layer(SelfRec, StagePlanes[k], layers[k], StageStride[k],
                           StageDilate(DilationFlags(rsd), k))
       IN /\ stages' = Append(stages, r.layer)
          /\ inplanes' = r.self.inplanes
          /\ dilation' = r.self.dilation
    /\ UNCHANGED <<pc, block, layers, rsd, in_channel, conv1, rep_dim, feat, raised>>
    /\ UNCHANGED headVars

\* lines 53-54 (the initialisation of lines 55-70 changes parameter values only)
ResNetFinish ==
    /\ pc = "layers"
    /\ Len(stages) = 4
    /\ rep_dim' = 512 * Expansion(block)
    /\ pc' = "built"
    /\ UNCHANGED <<block, layers, rsd, in_channel, inplanes, dilation, conv1,
                   stages, feat, raised>>
    /\ UNCHANGED headVars

\* ResNet.forward on a batch of shape x
ResNetForward(x) ==
    /\ pc = "built"
    /\ feat' = forward_impl(conv1[1], stages, Expansion(block), x)
    /\ UNCHANGED <<pc, block, layers, rsd, in_channel, inplanes, dilation, conv1,
                   stages, rep_dim, raised>>
    /\ UNCHANGED headVars

(***************************************************************************)
(* get_resnet_cifar (lines 132-145).  ResNet(b, ls) is the whole           *)
(* constructor with default arguments, as the selector calls it.           *)
(***************************************************************************)
RECURSIVE BuildStages(_, _, _, _)
BuildStages(self, ls, flags, k) ==
    IF k > 4 THEN [self |-> self, stages |-> <<>>]
    ELSE LET r == make_layer(self, StagePlanes[k], ls[k], StageStride[k],
                             StageDilate(flags, k))
             t == BuildStages(r.self, ls, flags, k + 1)
         IN [self |-> t.self, stages |-> <<r.layer>> \o t.stages]

ResNet(b, ls) ==
    LET built == BuildStages([block |-> b, inplanes |-> 64, dilation |-> 1,
                              groups |-> 1, base_width |-> 64],
                             ls, <<FALSE, FALSE, FALSE>>, 1)
    IN [block |-> b, layers |-> ls, in_channel |-> 3,
        inplanes |-> built.self.inplanes, dilation |-> built.self.dilation,
        conv1 |-> <<StemConv(3, 64)>>, stages |-> built.stages,
        rep_dim |-> 512 * Expansion(b)]

resnets_basic50 ==
    {<<"ResNet18", ResNet("BasicBlock", <<2, 2, 2, 2>>)>>,
     <<"ResNet34", ResNet("BasicBlock", <<3, 4, 6, 3>>)>>,
     <<"ResNet50", ResNet("BasicBlock", <<3, 4, 6, 3>>)>>}

\* the dictionary of line 137-141, as a set of <<key, value>> pairs
resnets ==
    {<<"ResNet18", ResNet("BasicBlock", <<2, 2, 2, 2>>)>>,
     <<"ResNet34", ResNet("BasicBlock", <<3, 4, 6, 3>>)>>,
     <<"ResNet50", ResNet("Bottleneck", <<3, 4, 6, 3>>)>>}

Names == {"ResNet18", "ResNet34", "ResNet50", "ResNet99", "resnet18", "ResNet"}

\* the selected backbone becomes the object in use; an unknown name raises
get_resnet_cifar(name) ==
    /\ pc = "none"
    /\ IF name \notin {p[1] : p \in resnets}
       THEN /\ pc' = "raised"
            /\ raised' = <<[type |-> "KeyError",
                            arg |-> name \o " is not a valid ResNet version"]>>
            /\ UNCHANGED <<block, layers, rsd, in_channel, inplanes, dilation,
                           conv1, stages, rep_dim>>
       ELSE LET net == (CHOOSE p \in resnets : p[1] = name)[2]
            IN /\ pc' = "built"
               /\ raised' = <<[type |-> "returned", arg |-> name]>>
               /\ block' = net.block
               /\ layers' = net.layers
               /\ in_channel' = net.in_channel
               /\ inplanes' = net.inplanes
               /\ dilation' = net.dilation
               /\ conv1' = net.conv1
               /\ stages' = net.stages
               /\ rep_dim' = net.rep_dim
               /\ rsd' = rsd
    /\ UNCHANGED feat
    /\ UNCHANGED headVars

NextResNet ==
    \/ \E b \in Blocks, ls \in LayerCounts, ic \in InChannels, r \in DilationArgs :
          ResNetNew(b, ls, ic, r)
    \/ ResNetStem
    \/ ResNetMakeLayer
    \/ ResNetFinish
    \/ \E x \in ImageShapes : ResNetForward(x)
    \/ \E name \in Names : get_resnet_cifar(name)

(***************************************************************************)
(* Tensor values: a finite non-negative value is an exact reduced fraction *)
(* n/d; inf and nan are the IEEE values torch produces.                    *)
(***************************************************************************)
RECURSIVE GCD(_, _)
GCD(a, b) == IF b = 0 THEN a ELSE GCD(b, a % b)

Fin(n, d) == LET g == GCD(n, d) IN [k |-> "fin", n |-> n \div g, d |-> d \div g]
Inf == [k |-> "inf", n |-> 0, d |-> 0]
NaN == [k |-> "nan", n |-> 0, d |-> 0]
Zero == Fin(0, 1)
One == Fin(1, 1)

Add(x, y) ==
    IF x.k = "nan" \/ y.k = "nan" THEN NaN
    ELSE IF x.k = "inf" \/ y.k = "inf" THEN Inf
    ELSE Fin(x.n * y.d + y.n * x.d, x.d * y.d)

Div(x, y) ==
    IF x.k = "nan" \/ y.k = "nan" THEN NaN
    ELSE IF x.k = "inf" THEN (IF y.k = "inf" THEN NaN ELSE Inf)
    ELSE IF y.k = "inf" THEN Zero
    ELSE IF y.n = 0 THEN (IF x.n = 0 THEN NaN ELSE Inf)
    ELSE Fin(x.n * y.d, x.d * y.n)

RECURSIVE IntPow(_, _)
IntPow(b, e) == IF e = 0 THEN 1 ELSE b * IntPow(b, e - 1)

\* sqrt(s) ** (-2 / (fuzzifier - 1)) for fuzzifier = fz[1]/fz[2] # 1, that is
\* s ** (-fz[2] / (fz[1] - fz[2])); the fuzzifiers enumerated make the exponent
\* an integer.  0 to a negative power is inf.
DistPow(s, fz) ==
    LET e == (0 - fz[2]) \div (fz[1] - fz[2])
    IN IF e < 0
       THEN (IF s = 0 THEN Inf ELSE Fin(1, IntPow(s, 0 - e)))
       ELSE Fin(IntPow(s, e), 1)

RECURSIVE SumSeq(_)
SumSeq(xs) == IF xs = <<>> THEN Zero ELSE Add(Head(xs), SumSeq(Tail(xs)))

RECURSIVE SumInt(_)
SumInt(xs) == IF xs = <<>> THEN 0 ELSE Head(xs) + SumInt(Tail(xs))

(***************************************************************************)
(* Broadcasting of two extents, as torch does it.                          *)
(***************************************************************************)
Broadcastable(m, n) == m = n \/ m = 1 \/ n = 1
BroadcastDim(m, n) == IF m = 1 THEN n ELSE m
\* index into an extent-n axis that is broadcast when n = 1
Bx(d, n) == IF n = 1 THEN 1 ELSE d

NoResult == [kind |-> "none", m |-> <<>>]
RaisedResult(e) == [kind |-> e, m |-> <<>>]

(***************************************************************************)
(* clustering_model.forward, lines 174-178, on the embeddings lat (N rows  *)
(* of F entries) and the prototype parameter P (R rows of cn entries).     *)
(***************************************************************************)
\* line 174 before the sqrt: entry [i, a] of sum((lat[:, None, :] - P) ** 2, dim=2)
SqDist(lat, P, i, a) ==
    LET F == Len(lat[i])
        Cc == Len(P[a])
    IN SumInt([d \in 1..BroadcastDim(F, Cc) |->
                 (lat[i][Bx(d, F)] - P[a][Bx(d, Cc)])
                 * (lat[i][Bx(d, F)] - P[a][Bx(d, Cc)])])

forward(lat, P, fz, cn) ==
    LET N == Len(lat)
        F == Len(lat[1])
        R == Len(P)
        Cc == Len(P[1])
    IN \* line 174: (N, 1, F) - (R, Cc), summed over the last axis, transposed
       IF ~Broadcastable(F, Cc) THEN RaisedResult("RuntimeError")
       \* line 175: the exponent -2. / (fuzzifier - 1.)
       ELSE IF fz[1] = fz[2] THEN RaisedResult("ZeroDivisionError")
       ELSE LET dis == [a \in 1..R |->
                          [i \in 1..N |-> DistPow(SqDist(lat, P, i, a), fz)]]
                \* line 176: sum over dim 0
                c == [i \in 1..N |-> SumSeq([a \in 1..R |-> dis[a][i]])]
            IN \* line 177: dis (R, N) / (ones(cn, 1) * c) (cn, N), transposed
               IF ~Broadcastable(R, cn) THEN RaisedResult("RuntimeError")
               ELSE LET K == BroadcastDim(R, cn)
                    IN [kind |-> "matrix",
                        m |-> [i \in 1..N |-> [a \in 1..K |->
                                 Div(dis[Bx(a, R)][i], c[i])]]]

(***************************************************************************)
(* Inputs of the clustering-model specification.                           *)
(***************************************************************************)
\* fuzzifier arguments: 2, 3/2, and the values <= 1 the constructor accepts
Fuzzifiers == {<<2, 1>>, <<3, 2>>, <<1, 1>>, <<1, 2>>}

\* class_number arguments: 0, 1, EmbDim and one more than EmbDim
ClassNumbers == 0..(EmbDim + 1)

Coords == {0, 1}

\* torch.Tensor(512, class_number) is uninitialised memory: any matrix.  The
\* matrices enumerated have at most one non-zero entry.
Prototypes(cn) ==
    {P \in [1..EmbDim -> [1..cn -> Coords]] :
        Cardinality({x \in (1..EmbDim) \X (1..cn) : P[x[1]][x[2]] # 0}) <= 1}

\* embeddings as encoder.forward returns them: number 0 is the zero vector
\* (F.normalize of zero features), numbers 1..EmbDim are the unit vectors
Embedding(k) == [d \in 1..EmbDim |-> IF d = k THEN 1 ELSE 0]

\* a batch is a run of n consecutive embeddings, starting anywhere in the cycle
Batches ==
    {[i \in 1..n |-> Embedding((k + i - 1) % (EmbDim + 1))] :
        k \in 0..EmbDim, n \in 1..MaxBatch}

Checkpoints == {"matching", "mismatched"}

InitHead ==
    /\ mpc = "none"
    /\ fuzzifier = <<2, 1>>
    /\ class_number = 0
    /\ clustering_layer = <<>>
    /\ feat_weights = "init"
    /\ num_batches_tracked = 0
    /\ latent = <<>>
    /\ u_matrix = NoResult
    /\ load_error = FALSE

\* clustering_model.__init__ (lines 160-166): nothing is validated
ClusteringModelNew ==
    /\ mpc = "none"
    /\ \E fz \in Fuzzifiers, cn \in ClassNumbers :
          \E P \in Prototypes(cn) :
             /\ clustering_layer' = P
             /\ fuzzifier' = fz
             /\ class_number' = cn
    /\ mpc' = "ready"
    /\ UNCHANGED <<feat_weights, num_batches_tracked, latent, u_matrix, load_error>>
    /\ UNCHANGED resnetVars

\* load_init_weight (lines 168-170): strict load_state_dict into feat_extractor
load_init_weight(ck) ==
    /\ mpc = "ready"
    /\ IF ck = "matching"
       THEN /\ feat_weights' = "checkpoint"
            /\ num_batches_tracked' = 0
            /\ load_error' = FALSE
       ELSE /\ feat_weights' = "partial"
            /\ num_batches_tracked' = num_batches_tracked
            /\ load_error' = TRUE
    /\ UNCHANGED <<mpc, fuzzifier, class_number, clustering_layer, latent, u_matrix>>
    /\ UNCHANGED resnetVars

\* the batch-normalisation layers in training mode (the mode a module is
\* constructed in) update their running statistics on every pass (line 173)
BatchNormTrack(n) == n + 1

Forward_inplace(lat) ==
    /\ mpc = "ready"
    /\ num_batches_tracked < MaxForward
    /\ latent' = lat
    /\ num_batches_tracked' = BatchNormTrack(num_batches_tracked)
    /\ u_matrix' = forward(lat, clustering_layer, fuzzifier, class_number)
    /\ clustering_layer' = [a \in 1..Len(clustering_layer) |->
                              [j \in 1..class_number |-> 1 - clustering_layer[a][j]]]
    /\ UNCHANGED <<mpc, fuzzifier, class_number, feat_weights, load_error>>
    /\ UNCHANGED resnetVars

\* clustering_model.forward (lines 172-178); lat is what feat_extractor returns
Forward(lat) ==
    /\ mpc = "ready"
    /\ num_batches_tracked < MaxForward
    /\ latent' = lat
    /\ num_batches_tracked' = BatchNormTrack(num_batches_tracked)
    /\ u_matrix' = forward(lat, clustering_layer, fuzzifier, class_number)
    /\ UNCHANGED <<mpc, fuzzifier, class_number, clustering_layer, feat_weights,
                   load_error>>
    /\ UNCHANGED resnetVars

NextHead ==
    \/ ClusteringModelNew
    \/ \E ck \in Checkpoints : load_init_weight(ck)
    \/ \E lat \in Batches : Forward(lat)

vars == <<resnetVars, headVars>>
Init == InitResNet /\ InitHead
Spec == Init /\ [][NextHead]_vars
SpecResNet == Init /\ [][NextResNet]_vars

(***************************************************************************)
(* Properties of the backbone (checked under SpecResNet).                  *)
(***************************************************************************)
RaisedType == IF raised = <<>> THEN "none" ELSE raised[1].type

\* C6: a replace_stride_with_dilation list whose length is not 3 makes
\* ResNet.__init__ raise ValueError before the stem convolution or any stage
\* exists; a list of length 3, or None, never raises it.
C6_DilationLengthChecked ==
    /\ (pc # "none" /\ Len(DilationFlags(rsd)) # 3)
          => /\ pc = "raised"
             /\ RaisedType = "ValueError"
             /\ conv1 = <<>>
             /\ stages = <<>>
             /\ rep_dim = 0
    /\ Len(DilationFlags(rsd)) = 3 => RaisedType # "ValueError"

C6_Witness ==
    /\ pc = "raised"
    /\ RaisedType = "ValueError"
    /\ ~rsd.none
    /\ Len(rsd.flags) = 4

StageLengths == [k \in 1..Len(stages) |-> Len(stages[k])]

\* C7: get_resnet_cifar returns for "ResNet18" the Basic-block backbone with
\* stages [2,2,2,2] and feature length 512, for "ResNet34" Basic blocks
\* [3,4,6,3], for "ResNet50" Bottleneck blocks [3,4,6,3]; for any other name it
\* raises KeyError with a message naming the key and returns no backbone.
C7_ModelSelector ==
    /\ RaisedType = "returned" =>
          /\ pc = "built"
          /\ raised[1].arg \in {"ResNet18", "ResNet34", "ResNet50"}
          /\ raised[1].arg = "ResNet18" =>
                /\ block = "BasicBlock" /\ layers = <<2, 2, 2, 2>>
                /\ StageLengths = <<2, 2, 2, 2>>
                /\ Expansion(block) = 1 /\ rep_dim = 512 /\ inplanes = 512
          /\ raised[1].arg = "ResNet34" =>
                /\ block = "BasicBlock" /\ layers = <<3, 4, 6, 3>>
                /\ StageLengths = <<3, 4, 6, 3>>
          /\ raised[1].arg = "ResNet50" =>
                /\ block = "Bottleneck" /\ layers = <<3, 4, 6, 3>>
                /\ StageLengths = <<3, 4, 6, 3>>
    /\ RaisedType = "KeyError" =>
          /\ pc = "raised"
          /\ conv1 = <<>> /\ stages = <<>>
          /\ \E name \in Names \ {"ResNet18", "ResNet34", "ResNet50"} :
                raised[1].arg = name \o " is not a valid ResNet version"

C7_Witness ==
    /\ RaisedType = "KeyError"
    /\ raised[1].arg = "ResNet99 is not a valid ResNet version"
    /\ pc = "raised"

RECURSIVE StrideProduct(_)
StrideProduct(bs) == IF bs = <<>> THEN 1 ELSE Head(bs).stride * StrideProduct(Tail(bs))

\* C10: every _make_layer call of the constructor builds a stage as follows.
\* Stage 1: stride 1 in every block.  Stage 2-4 with its flag false: stride 2
\* at the first block only, running dilation unchanged.  Stage 2-4 with its
\* flag true: stride 1 in every block, running dilation doubled, the first
\* block built with the dilation before the stage and the remaining blocks
\* with the dilation after it.  After stage k the accumulated stride times the
\* running dilation is 2^(k-1).
C10_StageBuilt ==
    LET k == Len(stages')
        L == stages'[k]
        flag == StageDilate(DilationFlags(rsd), k)
    IN /\ k = 1 => \A b \in 1..Len(L) : L[b].stride = 1
       /\ (k > 1 /\ ~flag) =>
             /\ L[1].stride = 2
             /\ \A b \in 2..Len(L) : L[b].stride = 1
             /\ dilation' = dilation
       /\ (k > 1 /\ flag) =>
             /\ \A b \in 1..Len(L) : L[b].stride = 1
             /\ dilation' = 2 * dilation
             /\ L[1].dilation = dilation
             /\ \A b \in 2..Len(L) : L[b].dilation = dilation'
       /\ StrideProduct(Flatten(stages')) * dilation' = IntPow(2, k - 1)

C10_StrideOrDilation ==
    [][(pc = "layers" /\ Len(stages') = Len(stages) + 1) => C10_StageBuilt]_vars

C10_Witness ==
    /\ pc = "built"
    /\ ~rsd.none
    /\ rsd.flags = <<TRUE, FALSE, TRUE>>
    /\ layers = <<2, 2, 2, 2>>
    /\ dilation = 4
    /\ StrideProduct(Flatten(stages)) = 2

(***************************************************************************)
(* Properties of the clustering model (checked under Spec).                *)
(***************************************************************************)
FuzzifierAboveOne == fuzzifier[1] > fuzzifier[2]

Returned == u_matrix.kind = "matrix"

\* squared distance between embedding i and prototype COLUMN j
ColSqDist(i, j) ==
    SumInt([d \in 1..Len(clustering_layer) |->
              (latent[i][d] - clustering_layer[d][j])
              * (latent[i][d] - clustering_layer[d][j])])

\* no embedding of the batch coincides with a prototype column
NonDegenerate ==
    \A i \in 1..Len(latent) : \A j \in 1..class_number : ColSqDist(i, j) # 0

IsProbability(v) == v.k = "fin" /\ 0 < v.n /\ v.n <= v.d

\* C1: for fuzzifier > 1, class_number >= 1 and a batch at non-zero distance
\* from every prototype, each row of the returned matrix sums to 1 and every
\* entry lies in (0, 1].
C1_RowStochastic ==
    (Returned /\ FuzzifierAboveOne /\ class_number >= 1 /\ NonDegenerate) =>
        \A i \in 1..Len(u_matrix.m) :
            /\ SumSeq(u_matrix.m[i]) = One
            /\ \A j \in 1..Len(u_matrix.m[i]) : IsProbability(u_matrix.m[i][j])

\* the fuzzy c-means membership of image i in cluster j, against prototype columns
FcmMembership(i, j) ==
    Div(DistPow(ColSqDist(i, j), fuzzifier),
        SumSeq([l \in 1..class_number |-> DistPow(ColSqDist(i, l), fuzzifier)]))

\* C2: the returned entry [i, j] is dist_pow[i, j] / c[i], with dist[i, j] the
\* distance between embedding i and prototype column j and c[i] the sum of
\* dist_pow[i, .] over the clusters.
C2_MembershipByColumns ==
    (Returned /\ FuzzifierAboveOne /\ NonDegenerate) =>
        u_matrix.m = [i \in 1..Len(latent) |->
                        [j \in 1..class_number |-> FcmMembership(i, j)]]

\* C3: with the prototype matrix of shape (EmbDim, C) the constructor creates,
\* forward on N >= 1 images and C >= 1 clusters raises no shape error and
\* returns a matrix of shape (N, C).
C3_ShapeNC ==
    (u_matrix.kind # "none" /\ FuzzifierAboveOne /\ class_number >= 1) =>
        /\ u_matrix.kind # "RuntimeError"
        /\ Returned =>
              /\ Len(u_matrix.m) = Len(latent)
              /\ \A i \in 1..Len(u_matrix.m) : Len(u_matrix.m[i]) = class_number

\* the prototypes (as forward measures distance, line 174) at distance 0 from image i
ZeroDistance(i) ==
    {a \in 1..Len(clustering_layer) : SqDist(latent, clustering_layer, i, a) = 0}

\* C4: when an embedding is at distance 0 from exactly one prototype, its
\* membership row is 1 for that prototype and 0 elsewhere, and no entry of the
\* result is inf or nan.
C4_ExactMatchDefined ==
    (Returned /\ FuzzifierAboveOne) =>
        \A i \in 1..Len(u_matrix.m) :
            /\ \A j \in 1..Len(u_matrix.m[i]) : u_matrix.m[i][j].k = "fin"
            /\ Cardinality(ZeroDistance(i)) = 1 =>
                  \A j \in 1..Len(u_matrix.m[i]) :
                      u_matrix.m[i][j] = IF j \in ZeroDistance(i) THEN One ELSE Zero

\* C5: no clustering_model exists with fuzzifier <= 1 or class_number <= 0.
C5_ConfigValidated ==
    mpc = "ready" => (FuzzifierAboveOne /\ class_number > 0)

PersistentState == <<clustering_layer, fuzzifier, class_number, feat_weights,
                     num_batches_tracked>>

\* C8 as stated: a forward call leaves the prototype matrix, the backbone
\* parameters and the normalisation running statistics unchanged.
C8_ForwardSideEffectFree ==
    [][(\E lat \in Batches : Forward(lat)) => UNCHANGED PersistentState]_vars

\* C8 as amended: a forward call leaves the prototype matrix, fuzzifier,
\* class_number and the backbone parameters unchanged, and advances the
\* running statistics of the batch-normalisation layers by one pass.
C8_ForwardKeepsParameters ==
    [][(\E lat \in Batches : Forward(lat)) =>
          /\ UNCHANGED <<clustering_layer, fuzzifier, class_number, feat_weights>>
          /\ num_batches_tracked' = num_batches_tracked + 1]_vars

C8_Witness ==
    /\ Returned
    /\ num_batches_tracked = 2
    /\ feat_weights = "checkpoint"
    /\ \E a \in 1..Len(clustering_layer) : \E j \in 1..class_number :
          clustering_layer[a][j] # 0

====
